---- MODULE Spec2Model ----
(***************************************************************************)
(* Model of lpnudiscrete/2ndlab.py (integer partitions: the generator      *)
(* partitions, the reporter print_partitions, the shell main) and of       *)
(* lpnudiscrete/1stlab.py (matrix of a relation and of its inverse:        *)
(* build_matrix, transpose, App.parse_inputs, App.on_compute).             *)
(*                                                                         *)
(* The generator is modelled as the stack of its suspended frames; one     *)
(* action is one step of the innermost frame.                              *)
(***************************************************************************)
EXTENDS Integers, Sequences, FiniteSets, TLC

VARIABLES
    pc,         \* position of the running program
    entry,      \* 2ndlab: the line typed at the prompt of main (a string of characters)
    direct,     \* TRUE when a client calls the functions itself, not main or the window
    n,          \* 2ndlab: <<>> until known, then <<the integer>>
    exc,        \* the exception in flight ("none" when there is none)
    stack,      \* 2ndlab: frames of partitions, outermost first
    all_parts,  \* 2ndlab: list(partitions(n)) as built so far
    parts_k3,   \* 2ndlab: the partitions of all_parts with exactly 3 addends
    out,        \* 2ndlab: the lines printed
    entry_A,    \* 1stlab: tokens of the entry for the set A
    text_pairs, \* 1stlab: the lines of the pairs text, each a list of tokens
    A,          \* 1stlab: the ordered set A
    pairs,      \* 1stlab: the parsed pairs
    dialogs,    \* 1stlab: the message boxes shown
    M_p,        \* 1stlab: matrix of the relation
    M_p_inv,    \* 1stlab: matrix of the inverse relation
    tables,     \* 1stlab: the tables shown
    status      \* 1stlab: the status line

vars == <<pc, entry, direct, n, exc, stack, all_parts, parts_k3, out,
          entry_A, text_pairs, A, pairs, dialogs, M_p, M_p_inv, tables, status>>

lab2vars == <<entry, direct, n, stack, all_parts, parts_k3, out>>
lab1vars == <<entry_A, text_pairs, A, pairs, dialogs, M_p, M_p_inv, tables, status>>

-----------------------------------------------------------------------------
(* Bounds *)

\* Longest line typed at the prompt of main.
MaxEntryLen == 2
\* Largest n a client passes to print_partitions directly.
MaxN == 8
\* print_partitions is also called with -MaxNeg .. -1.
MaxNeg == 2
\* Most tokens in the entry for the set A.
MaxA == 2
\* Most lines in the pairs text.
MaxLines == 2

\* Range accepted by main.
MinRange == 3
MaxRange == 7
\* Addend count of the filtered subset.
K3 == 3

None == <<>>
Some(v) == <<v>>

Min(a, b) == IF a <= b THEN a ELSE b

RECURSIVE SeqSum(_)
SeqSum(s) == IF s = <<>> THEN 0 ELSE Head(s) + SeqSum(Tail(s))

SeqsUpTo(S, k) == UNION {[1..m -> S] : m \in 0..k}

-----------------------------------------------------------------------------
(* int(input(...).strip()) *)

Digits == {"0", "3", "4", "6", "7", "8"}
Chars == Digits \cup {" ", "-", "x"}

DigitVal(c) ==
    CASE c = "0" -> 0 [] c = "1" -> 1 [] c = "2" -> 2 [] c = "3" -> 3 [] c = "4" -> 4
      [] c = "5" -> 5 [] c = "6" -> 6 [] c = "7" -> 7 [] c = "8" -> 8 [] c = "9" -> 9

RECURSIVE LStrip(_)
LStrip(s) == IF s # <<>> /\ Head(s) = " " THEN LStrip(Tail(s)) ELSE s

RECURSIVE RStrip(_)
RStrip(s) ==
    IF s # <<>> /\ s[Len(s)] = " " THEN RStrip(SubSeq(s, 1, Len(s) - 1)) ELSE s

\* str.strip()
Strip(s) == RStrip(LStrip(s))

RECURSIVE DecimalValue(_)
DecimalValue(s) ==
    IF s = <<>> THEN 0 ELSE 10 * DecimalValue(SubSeq(s, 1, Len(s) - 1)) + DigitVal(s[Len(s)])

IsDigits(s) == s # <<>> /\ \A i \in 1..Len(s) : s[i] \in Digits

\* int(s): Some(value), or None when int raises ValueError.
ParseInt(s) ==
    LET t == Strip(s) IN
    IF t # <<>> /\ Head(t) \in {"-", "+"}
    THEN IF IsDigits(Tail(t)) THEN Some(0 - DecimalValue(Tail(t))) ELSE None
    ELSE IF IsDigits(t) THEN Some(DecimalValue(t)) ELSE None

-----------------------------------------------------------------------------
(* partitions(n, max_part, prefix) *)

\* range(hi, 0, -1) as a list: hi, hi - 1, ..., 1 (empty when hi < 1).
RECURSIVE DownTo(_, _)
DownTo(hi, stop) == IF hi <= stop THEN <<>> ELSE <<hi>> \o DownTo(hi - 1, stop)

\* Faulty variant: the ceiling max_part is ignored, every addend up to n is tried.
AddendRangeNoCeiling(r, max_part) == DownTo(r, 0)

\* Faulty variant: the addends are tried from smaller to larger.
AddendRangeAscending(r, max_part) ==
    LET c == IF max_part = None THEN r ELSE max_part[1]
    IN [i \in 1..(IF Min(c, r) < 1 THEN 0 ELSE Min(c, r)) |-> i]

\* Faulty variant: the range stops one value later and tries the addend 0 as well.
AddendRangeToZero(r, max_part) ==
    LET c == IF max_part = None THEN r ELSE max_part[1]
    IN DownTo(Min(c, r), 0 - 1)

\* The values the for loop takes: range(min(max_part, n), 0, -1), with max_part
\* None replaced by n.
AddendRange(r, max_part) ==
    LET c == IF max_part = None THEN r ELSE max_part[1]
    IN DownTo(Min(c, r), 0)

\* Faulty variant: a remaining target of 1 is taken for the base case too.
IsBaseCaseOffByOne(r) == r = 0 \/ r = 1

\* Faulty variant: any remaining target that is not positive is taken for the base case.
IsBaseCaseNotPositive(r) == r <= 0

\* if n == 0
IsBaseCase(r) == r = 0

\* The frame of a call partitions(r, max_part, prefix); xs holds the values the
\* loop has still to take, the current one first (a base-case call has no loop).
Frame(r, max_part, prefix) ==
    [n |-> r, max_part |-> max_part, prefix |-> prefix,
     xs |-> IF IsBaseCase(r) THEN <<>> ELSE AddendRange(r, max_part)]

\* Faulty variant: the addend is not appended to the prefix passed down.
RecursiveCallDropsAddend(f) == Frame(f.n - Head(f.xs), Some(Head(f.xs)), f.prefix)

\* Faulty variant: the ceiling passed down is one more than the addend chosen.
RecursiveCallLooseCeiling(f) ==
    Frame(f.n - Head(f.xs), Some(Head(f.xs) + 1), Append(f.prefix, Head(f.xs)))

\* The frame of the call made in the loop body for the addend x = Head(xs).
RecursiveCall(f) == Frame(f.n - Head(f.xs), Some(Head(f.xs)), Append(f.prefix, Head(f.xs)))

Top == stack[Len(stack)]

\* The innermost frame returns: its caller's for loop goes on to its next value.
Return(s) ==
    LET k == Len(s) IN
    IF k = 1 THEN <<>>
    ELSE [SubSeq(s, 1, k - 1) EXCEPT ![k - 1].xs = Tail(@)]

Line(kind, p, k) == [kind |-> kind, part |-> p, num |-> k]

Lab1Idle ==
    /\ entry_A = <<>> /\ text_pairs = <<>> /\ A = <<>> /\ pairs = <<>>
    /\ dialogs = <<>> /\ M_p = <<>> /\ M_p_inv = <<>>
    /\ tables = <<>> /\ status = <<>>

Init ==
    /\ Lab1Idle
    /\ n = None /\ exc = "none" /\ stack = <<>>
    /\ all_parts = <<>> /\ parts_k3 = <<>> /\ out = <<>>
    /\ \/ /\ direct = FALSE
          /\ entry \in SeqsUpTo(Chars, MaxEntryLen)
          /\ pc = "main"
       \/ /\ direct = TRUE
          /\ entry = <<>>
          /\ pc = "call"

\* A client calls print_partitions(v).
ClientCall ==
    /\ pc = "call"
    /\ \E v \in (0 - MaxNeg)..MaxN : n' = Some(v)
    /\ pc' = "print_partitions"
    /\ UNCHANGED <<entry, direct, exc, stack, all_parts, parts_k3, out>>
    /\ UNCHANGED lab1vars

\* main, line 39: n = int(input(...).strip())
MainInput ==
    /\ pc = "main"
    /\ LET v == ParseInt(entry) IN
       IF v = None
       THEN /\ exc' = "ValueError" /\ pc' = "main_except" /\ n' = n
       ELSE /\ n' = v /\ pc' = "main_range" /\ exc' = exc
    /\ UNCHANGED <<entry, direct, stack, all_parts, parts_k3, out>>
    /\ UNCHANGED lab1vars

\* main, lines 40-42: except ValueError
MainExcept ==
    /\ pc = "main_except"
    /\ exc' = "none"
    /\ out' = Append(out, Line("error_integer", <<>>, 0))
    /\ pc' = "done"
    /\ UNCHANGED <<entry, direct, n, stack, all_parts, parts_k3>>
    /\ UNCHANGED lab1vars

\* Faulty variant: the lower end of the range is excluded.
InRangeExclusive(v) == MinRange < v /\ v <= MaxRange

\* 3 <= n <= 7
InRange(v) == MinRange <= v /\ v <= MaxRange

\* main, lines 44-48
MainRange ==
    /\ pc = "main_range"
    /\ IF ~InRange(n[1])
       THEN /\ out' = Append(out, Line("error_range", <<>>, 0)) /\ pc' = "done"
       ELSE /\ out' = out /\ pc' = "print_partitions"
    /\ UNCHANGED <<entry, direct, n, exc, stack, all_parts, parts_k3>>
    /\ UNCHANGED lab1vars

\* print_partitions, line 20: list(partitions(n)) starts the generator.
StartEnumeration ==
    /\ pc = "print_partitions"
    /\ stack' = <<Frame(n[1], None, <<>>)>>
    /\ pc' = "enumerating"
    /\ UNCHANGED <<entry, direct, n, exc, all_parts, parts_k3, out>>
    /\ UNCHANGED lab1vars

\* partitions, lines 7-9: yield prefix; return
YieldPrefix ==
    /\ pc = "enumerating" /\ stack # <<>>
    /\ IsBaseCase(Top.n)
    /\ all_parts' = Append(all_parts, Top.prefix)
    /\ stack' = Return(stack)
    /\ UNCHANGED <<pc, entry, direct, n, exc, parts_k3, out>>
    /\ UNCHANGED lab1vars

\* partitions, lines 14-15: the loop body calls partitions(n - x, x, prefix + (x,))
Recurse ==
    /\ pc = "enumerating" /\ stack # <<>>
    /\ ~IsBaseCase(Top.n)
    /\ Top.xs # <<>>
    /\ stack' = Append(stack, RecursiveCall(Top))
    /\ UNCHANGED <<pc, entry, direct, n, exc, all_parts, parts_k3, out>>
    /\ UNCHANGED lab1vars

\* partitions, line 14: the range is exhausted, the call returns.
LoopExit ==
    /\ pc = "enumerating" /\ stack # <<>>
    /\ ~IsBaseCase(Top.n)
    /\ Top.xs = <<>>
    /\ stack' = Return(stack)
    /\ UNCHANGED <<pc, entry, direct, n, exc, all_parts, parts_k3, out>>
    /\ UNCHANGED lab1vars

PartLines(ps) == [i \in 1..Len(ps) |-> Line("part", ps[i], 0)]

\* print_partitions, lines 21-24
PrintAll ==
    /\ pc = "enumerating" /\ stack = <<>>
    /\ out' = out \o <<Line("header_all", <<>>, n[1])>> \o PartLines(all_parts)
                  \o <<Line("total", <<>>, Len(all_parts))>>
    /\ pc' = "filter"
    /\ UNCHANGED <<entry, direct, n, exc, stack, all_parts, parts_k3>>
    /\ UNCHANGED lab1vars

\* Faulty variant: partitions with fewer addends pass as well.
HasAtMostK3(p) == Len(p) <= K3

\* len(p) == 3
HasK3(p) == Len(p) = K3

\* print_partitions, line 27
FilterK3 ==
    /\ pc = "filter"
    /\ parts_k3' = SelectSeq(all_parts, HasK3)
    /\ pc' = "print_k3"
    /\ UNCHANGED <<entry, direct, n, exc, stack, all_parts, out>>
    /\ UNCHANGED lab1vars

\* print_partitions, lines 28-34
PrintK3 ==
    /\ pc = "print_k3"
    /\ out' = out \o <<Line("header_k3", <<>>, n[1])>>
                  \o (IF parts_k3 # <<>> THEN PartLines(parts_k3)
                      ELSE <<Line("none", <<>>, 0)>>)
                  \o <<Line("total_k3", <<>>, Len(parts_k3))>>
    /\ pc' = "done"
    /\ UNCHANGED <<entry, direct, n, exc, stack, all_parts, parts_k3>>
    /\ UNCHANGED lab1vars

Next ==
    \/ ClientCall
    \/ MainInput
    \/ MainExcept
    \/ MainRange
    \/ StartEnumeration
    \/ YieldPrefix
    \/ Recurse
    \/ LoopExit
    \/ PrintAll
    \/ FilterK3
    \/ PrintK3

Spec == Init /\ [][Next]_vars

\* The interpreter runs the program to its end: no step is postponed for ever.
FairSpec == Spec /\ WF_vars(Next)

-----------------------------------------------------------------------------
(* 1stlab.py *)

\* The names typed. Indices are 1-based here and 0-based in the source.
Elems == {"a", "b", "c"}

\* parse_pair needs this many tokens on a line.
PairArity == 2

\* A line of the pairs text, as the tokens parse_pair splits it into.
LineTokens == SeqsUpTo(Elems, PairArity)

\* dedup_preserve_order(seq)
RECURSIVE DedupFrom(_, _, _)
DedupFrom(seq, seen, acc) ==
    IF seq = <<>> THEN acc
    ELSE IF Head(seq) \in seen
         THEN DedupFrom(Tail(seq), seen, acc)
         ELSE DedupFrom(Tail(seq), seen \cup {Head(seq)}, Append(acc, Head(seq)))

dedup_preserve_order(seq) == DedupFrom(seq, {}, <<>>)

\* parse_pair(line): Some(<<x, y>>), or None when it raises ValueError.
parse_pair(tokens) ==
    IF Len(tokens) < PairArity THEN None ELSE Some(<<tokens[1], tokens[2]>>)

InSeq(x, seq) == \E i \in 1..Len(seq) : seq[i] = x

\* idx = {a: i for i, a in enumerate(A)}: a later occurrence overwrites an earlier.
Idx(set, a) == CHOOSE i \in 1..Len(set) : set[i] = a /\ \A j \in (i + 1)..Len(set) : set[j] # a

\* The loop of build_matrix over the pairs, from the matrix M.
RECURSIVE SetPairs(_, _, _)
SetPairs(M, set, ps) ==
    IF ps = <<>> THEN M
    ELSE LET x == Head(ps)[1]
             y == Head(ps)[2]
         IN IF InSeq(x, set) /\ InSeq(y, set)
            THEN SetPairs([M EXCEPT ![Idx(set, x)][Idx(set, y)] = 1], set, Tail(ps))
            ELSE SetPairs(M, set, Tail(ps))

build_matrix(set, ps) ==
    LET k == Len(set)
        Zero == [i \in 1..k |-> [j \in 1..k |-> 0]]
    IN SetPairs(Zero, set, ps)

\* Length of the shortest row: zip stops there.
RECURSIVE MinRowLen(_)
MinRowLen(M) ==
    IF Len(M) = 1 THEN Len(M[1]) ELSE Min(Len(Head(M)), MinRowLen(Tail(M)))

\* Faulty variant: the rows are copied, not the columns.
transposeCopiesRows(M) == [i \in 1..Len(M) |-> M[i]]

\* [list(row) for row in zip(*M)] if M else []
transpose(M) ==
    IF M = <<>> THEN <<>>
    ELSE [j \in 1..MinRowLen(M) |-> [i \in 1..Len(M) |-> M[i][j]]]

RECURSIVE MatrixSum(_)
MatrixSum(M) == IF M = <<>> THEN 0 ELSE SeqSum(Head(M)) + MatrixSum(Tail(M))

Dialog(kind, lines, ps) == [kind |-> kind, lines |-> lines, pairs |-> ps]

Lab2Idle ==
    /\ entry = <<>> /\ n = None /\ stack = <<>>
    /\ all_parts = <<>> /\ parts_k3 = <<>> /\ out = <<>>

\* Either the window with its two inputs filled in and nothing computed yet, or a
\* client about to call build_matrix and transpose itself.
InitRel ==
    /\ Lab2Idle
    /\ exc = "none"
    /\ \/ /\ direct = FALSE /\ pc = "form"
          /\ entry_A \in SeqsUpTo(Elems, MaxA)
          /\ text_pairs \in SeqsUpTo(LineTokens, MaxLines)
       \/ /\ direct = TRUE /\ pc = "call_rel"
          /\ entry_A = <<>> /\ text_pairs = <<>>
    /\ A = <<>> /\ pairs = <<>> /\ dialogs = <<>>
    /\ M_p = <<>> /\ M_p_inv = <<>> /\ tables = <<>> /\ status = <<>>

\* The non-blank lines of the text, with their line numbers.
NonBlank == SelectSeq([i \in 1..Len(text_pairs) |-> <<i, text_pairs[i]>>],
                      LAMBDA l : l[2] # <<>>)

Parsed(l) == parse_pair(l[2]) # None
Rejected(l) == parse_pair(l[2]) = None

RECURSIVE Flatten(_)
Flatten(ps) == IF ps = <<>> THEN <<>> ELSE Head(ps) \o Flatten(Tail(ps))

\* on_compute, line 188: parse_inputs (lines 150-184), which may raise ValueError.
ParseInputs ==
    /\ pc = "form"
    /\ LET given == dedup_preserve_order(entry_A)
           good == SelectSeq(NonBlank, Parsed)
           bad == SelectSeq(NonBlank, Rejected)
           ps == [i \in 1..Len(good) |-> parse_pair(good[i][2])[1]]
           elems_seen == Flatten(ps)
           warned == IF bad # <<>>
                     THEN <<Dialog("warning", [i \in 1..Len(bad) |-> bad[i][1]], <<>>)>>
                     ELSE <<>>
       IN /\ dialogs' = dialogs \o warned
          /\ IF ps = <<>>
             THEN /\ exc' = "ValueError" /\ pc' = "compute_except"
                  /\ UNCHANGED <<A, pairs>>
             ELSE /\ A' = IF given = <<>> THEN dedup_preserve_order(elems_seen) ELSE given
                  /\ pairs' = ps
                  /\ pc' = "filter_pairs"
                  /\ exc' = exc
    /\ UNCHANGED <<entry_A, text_pairs, M_p, M_p_inv, tables, status>>
    /\ UNCHANGED lab2vars

\* on_compute, lines 189-191
ComputeExcept ==
    /\ pc = "compute_except"
    /\ exc' = "none"
    /\ dialogs' = Append(dialogs, Dialog("error", <<>>, <<>>))
    /\ pc' = "shown"
    /\ UNCHANGED <<entry_A, text_pairs, A, pairs, M_p, M_p_inv, tables, status>>
    /\ UNCHANGED lab2vars

Inside(p) == InSeq(p[1], A) /\ InSeq(p[2], A)
Outside(p) == ~InSeq(p[1], A) \/ ~InSeq(p[2], A)

\* on_compute, lines 194-201
FilterPairs ==
    /\ pc = "filter_pairs"
    /\ IF entry_A # <<>>
       THEN /\ dialogs' = IF SelectSeq(pairs, Outside) # <<>>
                          THEN Append(dialogs, Dialog("info", <<>>, SelectSeq(pairs, Outside)))
                          ELSE dialogs
            /\ pairs' = SelectSeq(pairs, Inside)
       ELSE UNCHANGED <<dialogs, pairs>>
    /\ pc' = "build"
    /\ UNCHANGED <<exc, entry_A, text_pairs, A, M_p, M_p_inv, tables, status>>
    /\ UNCHANGED lab2vars

\* on_compute, line 204
BuildMatrix ==
    /\ pc = "build"
    /\ M_p' = build_matrix(A, pairs)
    /\ pc' = "transpose"
    /\ UNCHANGED <<exc, entry_A, text_pairs, A, pairs, dialogs, M_p_inv, tables, status>>
    /\ UNCHANGED lab2vars

\* on_compute, line 205
Transpose ==
    /\ pc = "transpose"
    /\ M_p_inv' = transpose(M_p)
    /\ pc' = "render"
    /\ UNCHANGED <<exc, entry_A, text_pairs, A, pairs, dialogs, M_p, tables, status>>
    /\ UNCHANGED lab2vars

\* on_compute, lines 208-217
Render ==
    /\ pc = "render"
    /\ tables' = <<[title |-> "p", labels |-> A, M |-> M_p],
                   [title |-> "p_inv", labels |-> A, M |-> M_p_inv]>>
    /\ status' = <<[size |-> Len(A), used |-> MatrixSum(M_p)]>>
    /\ pc' = "shown"
    /\ UNCHANGED <<exc, entry_A, text_pairs, A, pairs, dialogs, M_p, M_p_inv>>
    /\ UNCHANGED lab2vars

DuplicateFree(seq) == \A i, j \in 1..Len(seq) : i # j => seq[i] # seq[j]

\* A client computes transpose(build_matrix(A, pairs)) for an ordered set A without
\* duplicates and any list of pairs.
ClientInverse ==
    /\ pc = "call_rel"
    /\ \E set \in {q \in SeqsUpTo(Elems, MaxA) : DuplicateFree(q)} :
       \E ps \in SeqsUpTo(Elems \X Elems, MaxLines) :
          /\ A' = set
          /\ pairs' = ps
          /\ M_p' = build_matrix(set, ps)
          /\ M_p_inv' = transpose(build_matrix(set, ps))
    /\ pc' = "returned"
    /\ UNCHANGED <<exc, direct, entry_A, text_pairs, dialogs, tables, status>>
    /\ UNCHANGED <<entry, n, stack, all_parts, parts_k3, out>>

NextRel ==
    \/ ClientInverse
    \/ ParseInputs
    \/ ComputeExcept
    \/ FilterPairs
    \/ BuildMatrix
    \/ Transpose
    \/ Render

SpecRel == InitRel /\ [][NextRel]_vars

-----------------------------------------------------------------------------
(* Properties of 2ndlab.py *)

\* list(partitions(n)) has returned to print_partitions.
EnumerationReturned == pc \in {"filter", "print_k3"} \/ (pc = "done" /\ Len(out) > 1)

\* The partition-counting function p(n), n = 0..7.
PartitionCount == <<1, 1, 2, 3, 5, 7, 11, 15>>

\* C1: for n in 0..7, partitions(n) emits exactly p(n) partitions
\* (1, 1, 2, 3, 5, 7, 11, 15), and never more while it runs.
CountCorrect ==
    (n # None /\ n[1] \in 0..7) =>
        /\ Len(all_parts) <= PartitionCount[n[1] + 1]
        /\ EnumerationReturned => Len(all_parts) = PartitionCount[n[1] + 1]

CountWitness ==
    /\ pc = "filter" /\ direct /\ n = Some(0) /\ all_parts = << <<>> >>

\* p comes before q in reverse-lexicographic order: at the first position where they
\* differ, p has the larger addend, or only q still has an addend there.
RevLexBefore(p, q) ==
    \E k \in 1..Len(q) :
        /\ \A j \in 1..(k - 1) : j <= Len(p) /\ p[j] = q[j]
        /\ \/ k > Len(p)
           \/ k <= Len(p) /\ p[k] > q[k]

\* C2: partitions emitted consecutively are in reverse-lexicographic order, and
\* partitions(4) emits exactly (4), (3,1), (2,2), (2,1,1), (1,1,1,1) in that order.
ReverseLexOrder ==
    /\ \A i \in 1..(Len(all_parts) - 1) : RevLexBefore(all_parts[i], all_parts[i + 1])
    /\ (EnumerationReturned /\ n = Some(4)) =>
           all_parts = << <<4>>, <<3, 1>>, <<2, 2>>, <<2, 1, 1>>, <<1, 1, 1, 1>> >>

OrderWitness ==
    /\ pc = "done" /\ n = Some(4) /\ Len(all_parts) = 5
    /\ all_parts[2] = <<3, 1>> /\ all_parts[3] = <<2, 2>>

\* C3, as claimed: for a negative n the enumerator fails with an error surfaced to
\* its caller, emits nothing and does not complete normally.
NegativeInputRejected ==
    (direct /\ n # None /\ n[1] < 0) =>
        /\ all_parts = <<>>
        /\ ~EnumerationReturned
        /\ pc = "done" => exc # "none"

\* C3, amended: for a negative integer n the enumerator raises nothing and emits
\* nothing: it completes normally with an empty result (totals 0 are reported).
NegativeInputYieldsEmpty ==
    (direct /\ n # None /\ n[1] < 0) =>
        /\ all_parts = <<>>
        /\ exc = "none"
        /\ Len(stack) <= 1
        /\ pc = "done" =>
              /\ Len(out) = 5
              /\ out[2] = Line("total", <<>>, 0)
              /\ out[5] = Line("total_k3", <<>>, 0)

NegativeInputWitness ==
    /\ pc = "done" /\ direct /\ n = Some(0 - 2) /\ all_parts = <<>> /\ exc = "none"
    /\ Len(out) = 5

\* C4: the addends of every emitted partition sum to n.
SumInvariant ==
    \A i \in 1..Len(all_parts) : n # None /\ SeqSum(all_parts[i]) = n[1]

SumWitness ==
    /\ pc = "enumerating" /\ n = Some(7) /\ Len(all_parts) = 5
    /\ all_parts[5] = <<4, 3>>

\* C5: the addends of every emitted partition are positive and non-increasing.
NonIncreasingInvariant ==
    \A i \in 1..Len(all_parts) :
        LET p == all_parts[i] IN
        \A j \in 1..Len(p) :
            /\ p[j] >= 1
            /\ j < Len(p) => p[j] >= p[j + 1]

NonIncreasingWitness ==
    /\ n = Some(6) /\ Len(all_parts) >= 6 /\ all_parts[6] = <<3, 2, 1>>

\* C6: no addend sequence is emitted twice by one run.
NoDuplicates ==
    \A i, j \in 1..Len(all_parts) : i # j => all_parts[i] # all_parts[j]

NoDuplicatesWitness ==
    /\ pc = "print_k3" /\ n = Some(5) /\ Len(all_parts) = 7
    /\ Cardinality({all_parts[i] : i \in 1..Len(all_parts)}) = 7

\* Position of p in all_parts (0 when absent).
IndexOf(p) ==
    IF \E i \in 1..Len(all_parts) : all_parts[i] = p
    THEN CHOOSE i \in 1..Len(all_parts) : all_parts[i] = p
    ELSE 0

\* The lines printed after the header of the k=3 section.
K3Section ==
    LET h == CHOOSE i \in 1..Len(out) : out[i].kind = "header_k3"
    IN SubSeq(out, h + 1, Len(out))

\* The k=3 subset is exactly the emitted partitions of length 3, in emission order,
\* and it is what the k=3 section prints, with its size as the k=3 total.
FilterSelectsLengthThree ==
    /\ pc \in {"print_k3", "done"} /\ EnumerationReturned =>
          /\ \A i \in 1..Len(parts_k3) : Len(parts_k3[i]) = 3 /\ IndexOf(parts_k3[i]) > 0
          /\ \A i \in 1..Len(all_parts) :
                Len(all_parts[i]) = 3 => \E j \in 1..Len(parts_k3) : parts_k3[j] = all_parts[i]
          /\ \A i, j \in 1..Len(parts_k3) :
                i < j => IndexOf(parts_k3[i]) < IndexOf(parts_k3[j])
          /\ n = Some(6) => parts_k3 = << <<4, 1, 1>>, <<3, 2, 1>>, <<2, 2, 2>> >>
          /\ n = Some(3) => parts_k3 = << <<1, 1, 1>> >>
    /\ pc = "done" /\ EnumerationReturned =>
          /\ out[Len(out)] = Line("total_k3", <<>>, Len(parts_k3))
          /\ parts_k3 # <<>> =>
                SubSeq(K3Section, 1, Len(K3Section) - 1)
                    = [i \in 1..Len(parts_k3) |-> Line("part", parts_k3[i], 0)]
          /\ parts_k3 = <<>> => K3Section[1].kind = "none" /\ Len(K3Section) = 2

\* C7, as claimed: the k=3 subset is exactly the emitted partitions of length 3, in
\* emission order, and its size is the k=3 total: n=6 gives (4,1,1), (3,2,1), (2,2,2);
\* n=3 gives (1,1,1); n=4 gives none (count 0).
ExactlyThreeFilterAsClaimed ==
    /\ FilterSelectsLengthThree
    /\ (pc \in {"print_k3", "done"} /\ EnumerationReturned /\ n = Some(4)) =>
           parts_k3 = <<>>

\* C7, amended: as claimed, except that n=4 gives (2,1,1), count 1.
ExactlyThreeFilter ==
    /\ FilterSelectsLengthThree
    /\ (pc \in {"print_k3", "done"} /\ EnumerationReturned /\ n = Some(4)) =>
           /\ parts_k3 = << <<2, 1, 1>> >>
           /\ pc = "done" => out[Len(out)].num = 1

ExactlyThreeWitness ==
    /\ pc = "done" /\ n = Some(4) /\ parts_k3 = << <<2, 1, 1>> >> /\ Len(all_parts) = 5
    /\ out[Len(out)] = Line("total_k3", <<>>, 1)

\* No partition and no count was printed.
NothingReported ==
    \A i \in 1..Len(out) : out[i].kind \notin {"part", "total", "total_k3", "none"}

\* C8: main runs print_partitions only for an entry that parses as an integer in
\* 3..7; otherwise it prints one error line, and no partition and no count. The
\* enumerator itself has no such range: called with n > 7 it still enumerates.
ShellRangeOnly ==
    /\ (~direct /\ (pc \in {"print_partitions", "enumerating", "filter", "print_k3"}
                      \/ stack # <<>> \/ all_parts # <<>> \/ ~NothingReported)) =>
           n # None /\ 3 <= n[1] /\ n[1] <= 7
    /\ (~direct /\ pc = "done") =>
           \/ /\ n = None
              /\ out = <<Line("error_integer", <<>>, 0)>> /\ all_parts = <<>>
           \/ /\ n # None /\ (n[1] < 3 \/ n[1] > 7)
              /\ out = <<Line("error_range", <<>>, 0)>> /\ all_parts = <<>>
           \/ /\ n # None /\ 3 <= n[1] /\ n[1] <= 7
              /\ all_parts # <<>> /\ ~NothingReported
    /\ (~direct /\ pc = "done" /\ entry \in {<<"3">>, <<" ", "7">>, <<"0", "4">>}) =>
           ~NothingReported
    /\ (~direct /\ pc = "done" /\ entry \in {<<"8">>, <<"-", "3">>, <<"0">>, <<"3", "7">>}) =>
           out = <<Line("error_range", <<>>, 0)>>
    /\ (~direct /\ pc = "done" /\ entry \in {<<>>, <<"x">>, <<"3", "x">>, <<"-">>, <<" ">>}) =>
           out = <<Line("error_integer", <<>>, 0)>>
    /\ (direct /\ EnumerationReturned /\ (n[1] \in 0..2 \/ n[1] > 7)) =>
           all_parts # <<>> /\ (pc = "done" => ~NothingReported)

ShellRangeWitness ==
    /\ ~direct /\ pc = "done" /\ entry = <<"8">> /\ n = Some(8)
    /\ out = <<Line("error_range", <<>>, 0)>>

\* Each recursive call in progress was made for an addend x >= 1, with a remaining target that
\* is smaller than its caller's and not negative.
CallsDecrease ==
    \A i \in 1..(Len(stack) - 1) :
        /\ Head(stack[i].xs) >= 1
        /\ stack[i + 1].n = stack[i].n - Head(stack[i].xs)
        /\ stack[i + 1].n < stack[i].n
        /\ stack[i + 1].n >= 0

\* Nested recursive calls below the outermost call.
Depth == Len(stack) - 1

\* C9: every recursive call has x >= 1 and a strictly smaller, non-negative
\* remaining target, the recursion depth never exceeds n, and the run ends.
Terminates ==
    /\ [](CallsDecrease /\ (n # None /\ n[1] >= 0 => Depth <= n[1]))
    /\ <>(pc = "done")

TerminatesWitness ==
    /\ pc = "enumerating" /\ n = Some(7) /\ Depth = 7 /\ Top.n = 0
    /\ Top.prefix = <<1, 1, 1, 1, 1, 1, 1>>

-----------------------------------------------------------------------------
(* Properties of 1stlab.py *)

\* Line l of the text gives the pair (x, y).
LineGives(l, x, y) ==
    Len(text_pairs[l]) >= 2 /\ text_pairs[l][1] = x /\ text_pairs[l][2] = y

\* C10: the matrix of the inverse relation, transpose(build_matrix(A, pairs)), is
\* |A| x |A| with entry [i][j] = 1 exactly when the pair (A[j], A[i]) occurs in the
\* pairs, 0 otherwise; it is the matrix of p with rows and columns swapped, pairs
\* with an element outside A add nothing, and its transpose is the matrix of p.
InverseMatrixCorrect ==
    /\ (pc \in {"render", "returned"} \/ (pc = "shown" /\ tables # <<>>)) =>
          LET k == Len(A) IN
          /\ \A i, j \in 1..k : i # j => A[i] # A[j]
          /\ Len(M_p_inv) = k /\ \A i \in 1..k : Len(M_p_inv[i]) = k
          /\ \A i, j \in 1..k :
                /\ M_p_inv[i][j] = IF InSeq(<<A[j], A[i]>>, pairs) THEN 1 ELSE 0
                /\ M_p_inv[i][j] = M_p[j][i]
          /\ MatrixSum(M_p_inv) =
                Cardinality({p \in {pairs[l] : l \in 1..Len(pairs)} :
                                InSeq(p[1], A) /\ InSeq(p[2], A)})
          /\ transpose(M_p_inv) = M_p
    /\ (pc = "render" \/ (pc = "shown" /\ tables # <<>>)) =>
          /\ Len(A) >= 1
          /\ \A i, j \in 1..Len(A) :
                M_p_inv[i][j] = IF \E l \in 1..Len(text_pairs) : LineGives(l, A[j], A[i])
                                THEN 1 ELSE 0
          /\ pc = "shown" => tables[2].M = M_p_inv /\ tables[2].labels = A

\* A client's call with a pair that has an element outside A.
InverseMatrixWitness ==
    /\ pc = "returned"
    /\ A = <<"b", "a">>
    /\ pairs = << <<"a", "b">>, <<"c", "a">> >>
    /\ M_p = << <<0, 0>>, <<1, 0>> >>
    /\ M_p_inv = << <<0, 1>>, <<0, 0>> >>

====
